---- MODULE Spec2Model ----
(***************************************************************************)
(* Render-log browser (src/main.py): LogBrowserModel (raw log, parse_log)  *)
(* and the MainWindow handlers that load a file into it.                   *)
(*                                                                         *)
(* A Python str is a sequence of one-character strings; None is the value  *)
(* None below, which is no such sequence.                                  *)
(***************************************************************************)
EXTENDS Integers, Sequences, FiniteSets, TLC

VARIABLES
    raw_log,        \* LogBrowserModel._raw_log: list of lines
    render_time,    \* LogBrowserModel._render_time: None or str
    memory_usage,   \* LogBrowserModel._memory_usage: dict, as the sequence of
                    \* its <<key, value>> items in insertion order
    warnings,       \* LogBrowserModel._warnings
    errors,         \* LogBrowserModel._errors
    file_path_edit, \* text of MainWindow.file_path_edit
    edit_style,     \* background of file_path_edit
    tab_widget,     \* tabs of MainWindow.tab_widget, left to right
    pc,             \* position of the running handler, "idle" between events
    line_index,     \* position of parse_log's loop in raw_log (1-based)
    exception,      \* exception that ended the last handler, or "None"
    store_status,   \* history: store_raw_log of the current load
    parse_invoked,  \* history: parse_log was entered in the current load
    visited,        \* history: indices of the lines the current pass visited
    had_data,       \* history: the model held data when the current load began
    prev            \* history: the last completed load, until the log file
                    \* is written again

model_vars == <<raw_log, render_time, memory_usage, warnings, errors>>
ui_vars == <<file_path_edit, edit_style, tab_widget>>
hist_vars == <<store_status, parse_invoked, visited, had_data, prev>>
vars == <<raw_log, render_time, memory_usage, warnings, errors,
          file_path_edit, edit_style, tab_widget, pc, line_index, exception,
          store_status, parse_invoked, visited, had_data, prev>>

----------------------------------------------------------------------------
(* Strings *)

None == <<"None">>

\* what a call gives when it raises instead of returning: match.group on
\* the None that re.search gives without a match
AttributeError == <<"AttributeError">>

\* Python truthiness of an Optional[str]: None and '' are false
Truthy(v) == v # None /\ v # <<>>

Digits == {"0", "1", "2", "3", "4", "5", "6", "7", "8", "9"}

NL == "\n"

----------------------------------------------------------------------------
(* Regular expressions: a pattern is a sequence of items.                  *)
(*   lit/digit/dot : a character class repeated min..max times, greedy     *)
(*                   (max = -1: unbounded)                                 *)
(*   open/close    : the parentheses of capture group 1                    *)
(*   eol           : $                                                     *)

Lit(c) == [t |-> "lit", c |-> c, min |-> 1, max |-> 1]
LitPlus(c) == [t |-> "lit", c |-> c, min |-> 1, max |-> -1]
DigitN(n) == [t |-> "digit", c |-> "", min |-> n, max |-> n]
DigitPlus == [t |-> "digit", c |-> "", min |-> 1, max |-> -1]
DotStar == [t |-> "dot", c |-> "", min |-> 0, max |-> -1]
GroupOpen == [t |-> "open", c |-> "", min |-> 0, max |-> 0]
GroupClose == [t |-> "close", c |-> "", min |-> 0, max |-> 0]
Eol == [t |-> "eol", c |-> "", min |-> 0, max |-> 0]

Lits(str) == [i \in 1..Len(str) |-> Lit(str[i])]

s_render_done_in == <<"r","e","n","d","e","r"," ","d","o","n","e"," ","i","n"," ">>
s_WARNING == <<"W","A","R","N","I","N","G">>
s_ERROR == <<"E","R","R","O","R">>

\* \d{2}\:\d{2}\:\d{2}
TimeStampItems == <<DigitN(2), Lit(":"), DigitN(2), Lit(":"), DigitN(2)>>

\* r'render done in (.*)$'
RENDER_TIME_REGEX == Lits(s_render_done_in) \o <<GroupOpen, DotStar, GroupClose, Eol>>

\* the memory marker without its pipe terminator
MEMORY_USAGE_REGEX_no_pipe ==
    <<DigitN(2), Lit(":"), DigitN(2), Lit(":"), DigitN(2),
      LitPlus(" "), DigitPlus, Lit("M"), Lit("B")>>

\* r'\d{2}\:\d{2}\:\d{2}\ +\d+MB\ +\|'
MEMORY_USAGE_REGEX ==
    TimeStampItems \o <<LitPlus(" "), DigitPlus, Lit("M"), Lit("B"), LitPlus(" "), Lit("|")>>

\* r'(\d{2}\:\d{2}\:\d{2})\ +\d+MB'
TIME_ELAPSED_REGEX ==
    <<GroupOpen>> \o TimeStampItems \o <<GroupClose, LitPlus(" "), DigitPlus, Lit("M"), Lit("B")>>

\* r'\d{2}\:\d{2}\:\d{2}\ +(\d+MB)'
MEMORY_USAGE_TIME_REGEX ==
    TimeStampItems \o <<LitPlus(" "), GroupOpen, DigitPlus, Lit("M"), Lit("B"), GroupClose>>

\* r'WARNING(.*)'
WARNING_REGEX == Lits(s_WARNING) \o <<GroupOpen, DotStar, GroupClose>>

\* r'ERROR(.*)'
ERROR_REGEX == Lits(s_ERROR) \o <<GroupOpen, DotStar, GroupClose>>

\* whether character ch is in the class of item it ('.' excludes newline)
ClassMatch(it, ch) ==
    CASE it.t = "lit" -> ch = it.c
      [] it.t = "digit" -> ch \in Digits
      [] it.t = "dot" -> ch # NL
      [] OTHER -> FALSE

\* $ as \Z: at the very end of the string only
EolAt_strict(s, i) == i = Len(s) + 1

\* $ without re.MULTILINE: at the end of the string, or just before a
\* newline that is the last character
EolAt(s, i) == i = Len(s) + 1 \/ (i = Len(s) /\ s[i] = NL)

\* the length of the longest run of characters of it's class from position
\* i, at most it.max long
Run(it, s, i) ==
    LET room == Len(s) + 1 - i
        limit == IF it.max # -1 /\ it.max < room THEN it.max ELSE room
    IN  CHOOSE n \in 0..limit :
            /\ \A j \in 0..(n - 1) : ClassMatch(it, s[i + j])
            /\ n = limit \/ ~ClassMatch(it, s[i + n])

NoMatch == [ok |-> FALSE, start |-> 0, end |-> 0, gs |-> 0, ge |-> 0]

\* Backtracking match of items k.. of re at position i of s; m carries the
\* start of the match and the bounds of group 1. The result is the sequence
\* of the matches there are, in the order backtracking finds them.
RECURSIVE MatchHere(_, _, _, _, _)
RECURSIVE TryCount(_, _, _, _, _, _)
MatchHere(re, k, s, i, m) ==
    IF k > Len(re) THEN <<[m EXCEPT !.ok = TRUE, !.end = i]>>
    ELSE CASE re[k].t = "open" -> MatchHere(re, k + 1, s, i, [m EXCEPT !.gs = i])
           [] re[k].t = "close" -> MatchHere(re, k + 1, s, i, [m EXCEPT !.ge = i])
           [] re[k].t = "eol" ->
                IF EolAt(s, i) THEN MatchHere(re, k + 1, s, i, m) ELSE <<>>
           [] OTHER -> TryCount(re, k, s, i, m, Run(re[k], s, i))

\* greedy: the longest repetition first, then shorter ones
TryCount(re, k, s, i, m, n) ==
    IF n < re[k].min THEN <<>>
    ELSE MatchHere(re, k + 1, s, i + n, m) \o TryCount(re, k, s, i, m, n - 1)

\* the matches of re that start at position i of s
MatchAt(re, s, i) == MatchHere(re, 1, s, i, [NoMatch EXCEPT !.start = i])

\* re.search: the first match at the leftmost position that has one
re_search(re, s) ==
    LET starts == {i \in 1..(Len(s) + 1) : MatchAt(re, s, i) # <<>>}
    IN  IF starts = {} THEN NoMatch
        ELSE Head(MatchAt(re, s, CHOOSE i \in starts : \A j \in starts : i <= j))

\* extract_regex_match without its "if match": match.group on None raises
extract_regex_match_unguarded(regex, string, group_index) ==
    LET match == re_search(regex, string)
    IN  IF match.ok
        THEN IF group_index = 0
             THEN SubSeq(string, match.start, match.end - 1)
             ELSE SubSeq(string, match.gs, match.ge - 1)
        ELSE AttributeError

\* LogBrowserModel.extract_regex_match: the group, or None without a match
extract_regex_match(regex, string, group_index) ==
    LET match == re_search(regex, string)
    IN  IF match.ok
        THEN IF group_index = 0
             THEN SubSeq(string, match.start, match.end - 1)
             ELSE SubSeq(string, match.gs, match.ge - 1)
        ELSE None

----------------------------------------------------------------------------
(* The dict of memory usage: <<key, value>> items in insertion order *)

RECURSIVE dict_get(_, _)
dict_get(d, k) ==
    IF d = <<>> THEN None
    ELSE IF Head(d)[1] = k THEN Head(d)[2] ELSE dict_get(Tail(d), k)

\* d[k] = v: an existing key keeps its place, a new one goes last
dict_set(d, k, v) ==
    IF \E i \in 1..Len(d) : d[i][1] = k
    THEN [i \in 1..Len(d) |-> IF d[i][1] = k THEN <<k, v>> ELSE d[i]]
    ELSE Append(d, <<k, v>>)

dict_keys(d) == [i \in 1..Len(d) |-> d[i][1]]

----------------------------------------------------------------------------
(* LogBrowserModel.parse_log, one line at a time *)

\* what a statement of the loop body leaves: the value of its field, and
\* the exception that left it, if any
Ok(v) == [exc |-> "None", val |-> v]
Raise(old) == [exc |-> "AttributeError", val |-> old]

\* "Look for render time"
render_time_rule(old, line) ==
    LET rt == extract_regex_match(RENDER_TIME_REGEX, line, 1)
    IN  IF rt = AttributeError THEN Raise(old)
        ELSE IF Truthy(rt) THEN Ok(rt) ELSE Ok(old)

\* the memory rule without its "if not self.memory_usage.get(time_elapsed)":
\* the last line of a time label wins
memory_usage_rule_last_wins(old, line) ==
    LET mu == extract_regex_match(MEMORY_USAGE_REGEX, line, 0)
    IN  IF Truthy(mu)
        THEN Ok(dict_set(old, extract_regex_match(TIME_ELAPSED_REGEX, mu, 1),
                         extract_regex_match(MEMORY_USAGE_TIME_REGEX, mu, 1)))
        ELSE Ok(old)

\* "Gather memory usage"
memory_usage_rule(old, line) ==
    LET mu == extract_regex_match(MEMORY_USAGE_REGEX, line, 0)
    IN  IF mu = AttributeError THEN Raise(old)
        ELSE IF Truthy(mu)
        THEN LET time_elapsed == extract_regex_match(TIME_ELAPSED_REGEX, mu, 1)
             IN  IF time_elapsed = AttributeError THEN Raise(old)
                 ELSE IF ~Truthy(dict_get(old, time_elapsed))
                 THEN LET memory_usage_time ==
                              extract_regex_match(MEMORY_USAGE_TIME_REGEX, mu, 1)
                      IN  IF memory_usage_time = AttributeError THEN Raise(old)
                          ELSE IF Truthy(memory_usage_time)
                          THEN Ok(dict_set(old, time_elapsed, memory_usage_time))
                          ELSE Ok(old)
                 ELSE Ok(old)
        ELSE Ok(old)

\* the warning rule keeping one entry per distinct text
warning_rule_dedup(old, line) ==
    LET warning == extract_regex_match(WARNING_REGEX, line, 0)
    IN  IF Truthy(warning) /\ ~(\E i \in 1..Len(old) : old[i] = warning)
        THEN Ok(Append(old, warning)) ELSE Ok(old)

\* "Look for warnings"
warning_rule(old, line) ==
    LET warning == extract_regex_match(WARNING_REGEX, line, 0)
    IN  IF warning = AttributeError THEN Raise(old)
        ELSE IF Truthy(warning) THEN Ok(Append(old, warning)) ELSE Ok(old)

\* "Look for errors"
error_rule(old, line) ==
    LET error == extract_regex_match(ERROR_REGEX, line, 0)
    IN  IF error = AttributeError THEN Raise(old)
        ELSE IF Truthy(error) THEN Ok(Append(old, error)) ELSE Ok(old)

\* the loop body with its four statements chained by elif: the first rule
\* that matches is the only one applied
parse_line_elif(res, line) ==
    IF Truthy(extract_regex_match(RENDER_TIME_REGEX, line, 1))
    THEN [render_time |-> render_time_rule(res.render_time, line).val,
          memory_usage |-> res.memory_usage, warnings |-> res.warnings,
          errors |-> res.errors, exc |-> "None"]
    ELSE IF Truthy(extract_regex_match(MEMORY_USAGE_REGEX, line, 0))
    THEN [render_time |-> res.render_time,
          memory_usage |-> memory_usage_rule(res.memory_usage, line).val,
          warnings |-> res.warnings, errors |-> res.errors, exc |-> "None"]
    ELSE IF Truthy(extract_regex_match(WARNING_REGEX, line, 0))
    THEN [render_time |-> res.render_time, memory_usage |-> res.memory_usage,
          warnings |-> warning_rule(res.warnings, line).val,
          errors |-> res.errors, exc |-> "None"]
    ELSE [render_time |-> res.render_time, memory_usage |-> res.memory_usage,
          warnings |-> res.warnings,
          errors |-> error_rule(res.errors, line).val, exc |-> "None"]

\* the body of parse_log's loop on the four parsed fields res: the four
\* statements in order, an exception leaving the later ones undone
parse_line(res, line) ==
    LET r == render_time_rule(res.render_time, line)
        m == IF r.exc = "None" THEN memory_usage_rule(res.memory_usage, line)
             ELSE Raise(res.memory_usage)
        w == IF m.exc = "None" THEN warning_rule(res.warnings, line)
             ELSE Raise(res.warnings)
        e == IF w.exc = "None" THEN error_rule(res.errors, line)
             ELSE Raise(res.errors)
    IN  [render_time |-> r.val, memory_usage |-> m.val, warnings |-> w.val,
         errors |-> e.val, exc |-> e.exc]

\* the four parsed fields of the model, as one value
Result ==
    [render_time |-> render_time, memory_usage |-> memory_usage,
     warnings |-> warnings, errors |-> errors]

\* the parsed fields after __init__ and after reset_data
EmptyResult ==
    [render_time |-> None, memory_usage |-> <<>>, warnings |-> <<>>, errors |-> <<>>]

\* reset_data without its "self.warnings = []"
reset_data_keeps_warnings ==
    [raw_log |-> <<>>, result |-> [EmptyResult EXCEPT !.warnings = warnings]]

\* reset_data without its "self.memory_usage = {}"
reset_data_keeps_memory_usage ==
    [raw_log |-> <<>>, result |-> [EmptyResult EXCEPT !.memory_usage = memory_usage]]

\* LogBrowserModel.reset_data: the values it stores
reset_data == [raw_log |-> <<>>, result |-> EmptyResult]

\* parse_log on lines from the parsed fields res, when no line raises
RECURSIVE parse_log(_, _)
parse_log(res, lines) ==
    IF lines = <<>> THEN res
    ELSE LET out == parse_line(res, Head(lines))
         IN  parse_log([render_time |-> out.render_time,
                        memory_usage |-> out.memory_usage,
                        warnings |-> out.warnings, errors |-> out.errors],
                       Tail(lines))

----------------------------------------------------------------------------
(* Files *)

MaxLines == 2

t_5 == <<"0","0",":","0","0",":","0","5">>
t_1 == <<"0","0",":","0","0",":","0","1">>

\* the lines a log file is made of here, without their newline
LineBodies ==
    { s_render_done_in \o <<"1","s">>,
      s_render_done_in,
      t_5 \o <<" ","1","M","B"," ","|">>,
      <<"x">> \o t_5 \o <<" "," ","3","M","B"," "," ","|"," ">> \o t_1
          \o <<" ","4","M","B"," ","|">>,
      t_5 \o <<" ","4","M","B">>,
      s_WARNING \o <<":"," ","a"," ">> \o s_WARNING,
      <<"x"," ">> \o s_ERROR \o <<" ","b"," ">>,
      t_1 \o <<" ","5","M","B"," ","|"," ">> \o s_WARNING \o <<" ">> \o s_ERROR
          \o <<" ">> \o s_render_done_in \o <<"3","s">> }

RECURSIVE JoinLines(_, _)
JoinLines(bodies, final_nl) ==
    IF bodies = <<>> THEN <<>>
    ELSE IF Len(bodies) = 1
         THEN IF final_nl THEN Head(bodies) \o <<NL>> ELSE Head(bodies)
         ELSE Head(bodies) \o <<NL>> \o JoinLines(Tail(bodies), final_nl)

\* the contents a readable file can have
FileTexts ==
    { JoinLines(b, nl) :
        b \in UNION { [1..n -> LineBodies] : n \in 0..MaxLines }, nl \in BOOLEAN }

\* file.readlines(): a line ends with each newline, which it keeps; what
\* follows the last newline is a line without one
readlines(text) ==
    LET ends == {i \in 1..Len(text) : text[i] = NL \/ i = Len(text)}
        EndOf(k) == CHOOSE e \in ends : Cardinality({f \in ends : f <= e}) = k
    IN  [k \in 1..Cardinality(ends) |->
            SubSeq(text, IF k = 1 THEN 1 ELSE EndOf(k - 1) + 1, EndOf(k))]

\* the paths the user can give: name, os.path.exists, whether
\* os.path.splitext gives '.log', and whether open() succeeds
Paths ==
    { [name |-> "a.log", exists |-> TRUE, log_ext |-> TRUE, openable |-> TRUE],
      [name |-> "locked.log", exists |-> TRUE, log_ext |-> TRUE, openable |-> FALSE],
      [name |-> "notes.txt", exists |-> TRUE, log_ext |-> FALSE, openable |-> TRUE],
      [name |-> "gone.log", exists |-> FALSE, log_ext |-> TRUE, openable |-> FALSE],
      [name |-> "", exists |-> FALSE, log_ext |-> FALSE, openable |-> FALSE] }

PathOf(name) == CHOOSE p \in Paths : p.name = name

----------------------------------------------------------------------------
(* Tabs: [name, count, rows]; count is the number a tab title shows *)

Tab(name, count, rows) == [name |-> name, count |-> count, rows |-> rows]

\* str comparison is by code point; keys are made of digits and ':'
CodePointOrder == <<"0", "1", "2", "3", "4", "5", "6", "7", "8", "9", ":">>

Ord(c) == CHOOSE i \in 1..Len(CodePointOrder) : CodePointOrder[i] = c

RECURSIVE StrLess(_, _)
StrLess(a, b) ==
    IF b = <<>> THEN FALSE
    ELSE IF a = <<>> THEN TRUE
    ELSE IF Head(a) = Head(b) THEN StrLess(Tail(a), Tail(b))
    ELSE Ord(Head(a)) < Ord(Head(b))

\* sorted(keys)
RECURSIVE sorted(_)
sorted(keys) ==
    IF keys = <<>> THEN <<>>
    ELSE LET least == CHOOSE i \in 1..Len(keys) :
                          \A j \in 1..Len(keys) : ~StrLess(keys[j], keys[i])
         IN  <<keys[least]>>
             \o sorted([j \in 1..(Len(keys) - 1) |->
                            IF j < least THEN keys[j] ELSE keys[j + 1]])

set_render_time_tab(tabs) ==
    IF ~Truthy(render_time) THEN tabs
    ELSE Append(tabs, Tab("Render Time", 0, <<render_time>>))

\* set_memory_usage_tab without its sorted(): rows in the dict's own order
set_memory_usage_tab_unsorted(tabs) ==
    IF memory_usage = <<>> THEN tabs
    ELSE Append(tabs, Tab("Memory Usage", 0, memory_usage))

set_memory_usage_tab(tabs) ==
    IF memory_usage = <<>> THEN tabs
    ELSE LET time_elapsed_list == sorted(dict_keys(memory_usage))
         IN  Append(tabs,
                    Tab("Memory Usage", 0,
                        [i \in 1..Len(time_elapsed_list) |->
                            <<time_elapsed_list[i],
                              dict_get(memory_usage, time_elapsed_list[i])>>]))

set_warnings_tab(tabs) ==
    IF warnings = <<>> THEN tabs
    ELSE Append(tabs, Tab("Warnings", Len(warnings), warnings))

set_errors_tab(tabs) ==
    IF errors = <<>> THEN tabs
    ELSE Append(tabs, Tab("Errors", Len(errors), errors))

----------------------------------------------------------------------------
(* State machine *)

NoPrev == [valid |-> FALSE, text |-> <<>>, result |-> EmptyResult]

\* the text of a file from the lines readlines() made of it
RECURSIVE concat(_)
concat(lines) == IF lines = <<>> THEN <<>> ELSE Head(lines) \o concat(Tail(lines))

Init ==
    /\ raw_log = <<>>
    /\ render_time = None
    /\ memory_usage = <<>>
    /\ warnings = <<>>
    /\ errors = <<>>
    /\ file_path_edit = ""
    /\ edit_style = "default"
    /\ tab_widget = <<>>
    /\ pc = "idle"
    /\ line_index = 1
    /\ exception = "None"
    /\ store_status = "not_run"
    /\ parse_invoked = FALSE
    /\ visited = <<>>
    /\ had_data = FALSE
    /\ prev = NoPrev

\* MainWindow.clean_window_and_stored_data, at the start of both handlers
clean_window_and_stored_data ==
    /\ raw_log' = reset_data.raw_log
    /\ render_time' = reset_data.result.render_time
    /\ memory_usage' = reset_data.result.memory_usage
    /\ warnings' = reset_data.result.warnings
    /\ errors' = reset_data.result.errors
    /\ exception' = "None"
    /\ store_status' = "not_run"
    /\ parse_invoked' = FALSE
    /\ visited' = <<>>
    /\ line_index' = 1
    /\ had_data' = (raw_log # <<>> \/ Result # EmptyResult)
    /\ prev' = prev

\* browse_on_key_pressed with text in the path field, up to its return or
\* to set_tabs' call of store_raw_log
BrowseOnKeyPressed(text) ==
    /\ pc = "idle"
    /\ clean_window_and_stored_data
    /\ file_path_edit' = text
    /\ IF ~(PathOf(text).exists /\ PathOf(text).log_ext)
       THEN \* wrong_file_path
            /\ tab_widget' = <<Tab("ERROR", 0, <<"Please select an existing .log file">>)>>
            /\ edit_style' = "red"
            /\ pc' = "idle"
       ELSE /\ tab_widget' = <<>>
            /\ edit_style' = "white"
            /\ pc' = "store_raw_log"

\* browse_on_click with the file dialog's answer ("" when cancelled), up to
\* its return or to set_tabs' call of store_raw_log
BrowseOnClick(selected) ==
    /\ pc = "idle"
    /\ clean_window_and_stored_data
    /\ tab_widget' = <<>>
    /\ edit_style' = "white"
    /\ IF selected = ""
       THEN /\ pc' = "idle"
            /\ file_path_edit' = file_path_edit
       ELSE /\ pc' = "store_raw_log"
            /\ file_path_edit' = selected

\* what the log file holds when it is read: what the last load read,
\* unless the file was written since
CurrentTexts == IF prev.valid THEN {prev.text} ELSE FileTexts

\* store_raw_log when open() succeeds: the lines of the file, then set_tabs
\* goes on to parse_log
StoreRawLog ==
    /\ pc = "store_raw_log"
    /\ PathOf(file_path_edit).openable
    /\ \E text \in CurrentTexts : raw_log' = readlines(text)
    /\ store_status' = "ok"
    /\ pc' = "parse_log"
    /\ parse_invoked' = TRUE
    /\ line_index' = 1
    /\ UNCHANGED <<render_time, memory_usage, warnings, errors, ui_vars,
                   exception, visited, had_data, prev>>

\* set_tabs catching the exception of store_raw_log and going on
StoreRawLogFails_swallowed ==
    /\ pc = "store_raw_log"
    /\ ~PathOf(file_path_edit).openable
    /\ store_status' = "failed"
    /\ pc' = "parse_log"
    /\ parse_invoked' = TRUE
    /\ UNCHANGED <<model_vars, ui_vars, line_index, exception, visited,
                   had_data, prev>>

\* store_raw_log when open() raises: the exception leaves set_tabs and the
\* handler
StoreRawLogFails ==
    /\ pc = "store_raw_log"
    /\ ~PathOf(file_path_edit).openable
    /\ store_status' = "failed"
    /\ exception' = "OSError"
    /\ pc' = "idle"
    /\ UNCHANGED <<model_vars, ui_vars, line_index, parse_invoked, visited,
                   had_data, prev>>

\* one iteration of parse_log's loop; an exception leaves parse_log,
\* set_tabs and the handler
ParseLine ==
    /\ pc = "parse_log"
    /\ line_index <= Len(raw_log)
    /\ \E out \in {parse_line(Result, raw_log[line_index])} :
           /\ render_time' = out.render_time
           /\ memory_usage' = out.memory_usage
           /\ warnings' = out.warnings
           /\ errors' = out.errors
           /\ exception' = out.exc
           /\ pc' = IF out.exc = "None" THEN "parse_log" ELSE "idle"
           /\ line_index' = IF out.exc = "None" THEN line_index + 1 ELSE line_index
    /\ visited' = Append(visited, line_index)
    /\ UNCHANGED <<raw_log, ui_vars, store_status, parse_invoked, had_data, prev>>

\* the end of parse_log's loop and the rest of set_tabs
SetTabs ==
    /\ pc = "parse_log"
    /\ line_index > Len(raw_log)
    /\ tab_widget' = set_errors_tab(set_warnings_tab(
                         set_memory_usage_tab(set_render_time_tab(tab_widget))))
    /\ pc' = "idle"
    /\ prev' = [valid |-> TRUE, text |-> concat(raw_log), result |-> Result]
    /\ UNCHANGED <<model_vars, file_path_edit, edit_style, line_index, exception,
                   store_status, parse_invoked, visited, had_data>>

\* the log file is written between two events: its next read can give any
\* text
FileWritten ==
    /\ pc = "idle"
    /\ prev.valid
    /\ prev' = NoPrev
    /\ UNCHANGED <<model_vars, ui_vars, pc, line_index, exception, store_status,
                   parse_invoked, visited, had_data>>

Next ==
    \/ \E p \in Paths : BrowseOnKeyPressed(p.name)
    \/ \E p \in Paths : ((p.exists /\ p.log_ext) \/ p.name = "") /\ BrowseOnClick(p.name)
    \/ StoreRawLog
    \/ StoreRawLogFails
    \/ ParseLine
    \/ SetTabs
    \/ FileWritten

Spec == Init /\ [][Next]_vars

TypeOK ==
    /\ pc \in {"idle", "store_raw_log", "parse_log"}
    /\ line_index \in 1..(Len(raw_log) + 1)

----------------------------------------------------------------------------
(* What the specification says of a line, stated without the patterns *)

\* the literal lit stands at position i of s
HasAt(s, i, lit) ==
    /\ i + Len(lit) - 1 <= Len(s)
    /\ \A j \in 1..Len(lit) : s[i + j - 1] = lit[j]

Occurs(s, lit) == \E i \in 1..Len(s) : HasAt(s, i, lit)

FirstOcc(s, lit) ==
    CHOOSE i \in 1..Len(s) :
        HasAt(s, i, lit) /\ \A j \in 1..(i - 1) : ~HasAt(s, j, lit)

\* the last position of the line s before its newline, if it has one
EndOfLine(s) == IF s # <<>> /\ s[Len(s)] = NL THEN Len(s) - 1 ELSE Len(s)

\* the text of s from position i to the end of the line
ToEol(s, i) == SubSeq(s, i, EndOfLine(s))

\* the text from the first occurrence of lit to the end of the line
FromMarker(s, lit) == ToEol(s, FirstOcc(s, lit))

\* <TAIL>: the text after the first "render done in " to the end of the line
RenderTail(s) ==
    ToEol(s, FirstOcc(s, s_render_done_in) + Len(s_render_done_in))

\* how many characters of the set cs follow each other from position i
CountRun(s, i, cs) ==
    CHOOSE n \in 0..(Len(s) + 1 - i) :
        /\ \A j \in 0..(n - 1) : s[i + j] \in cs
        /\ i + n > Len(s) \/ s[i + n] \notin cs

\* HH:MM:SS at position i
TimeStampAt(s, i) ==
    /\ i + 7 <= Len(s)
    /\ \A j \in {0, 1, 3, 4, 6, 7} : s[i + j] \in Digits
    /\ s[i + 2] = ":" /\ s[i + 5] = ":"

\* the marker HH:MM:SS, spaces, <digits>MB, spaces, | at position i
MarkerAt(s, i) ==
    /\ TimeStampAt(s, i)
    /\ \E a \in {CountRun(s, i + 8, {" "})} :
         /\ a >= 1
         /\ \E d \in {CountRun(s, i + 8 + a, Digits)} :
              /\ d >= 1
              /\ HasAt(s, i + 8 + a + d, <<"M", "B">>)
              /\ \E b \in {CountRun(s, i + 10 + a + d, {" "})} :
                   b >= 1 /\ HasAt(s, i + 10 + a + d + b, <<"|">>)

\* the leftmost marker of s: whether there is one, its HH:MM:SS label and
\* its <digits>MB label
MarkerOf(s) ==
    LET at == {i \in 1..Len(s) : MarkerAt(s, i)}
    IN  IF at = {} THEN [has |-> FALSE, label |-> <<>>, usage |-> <<>>]
        ELSE LET i == CHOOSE x \in at : \A y \in at : x <= y
                 a == CountRun(s, i + 8, {" "})
                 d == CountRun(s, i + 8 + a, Digits)
             IN  [has |-> TRUE, label |-> SubSeq(s, i, i + 7),
                  usage |-> SubSeq(s, i + 8 + a, i + 9 + a + d)]

\* the k-th smallest element of a set of numbers
Kth(S, k) == CHOOSE x \in S : Cardinality({y \in S : y <= x}) = k

\* the entries of the lines that hold lit, in the order of the lines
EntriesOf(lines, lit) ==
    LET at == {i \in 1..Len(lines) : Occurs(lines[i], lit)}
    IN  [k \in 1..Cardinality(at) |-> FromMarker(lines[Kth(at, k)], lit)]

\* a load has completed: set_tabs returned
LoadCompleted == pc = "idle" /\ store_status = "ok" /\ exception = "None"

----------------------------------------------------------------------------
(* Claims *)

\* C1: parsing the same lines twice gives equal results: when a load ends
\* its pass and the file is as the load before read it, render_time,
\* memory_usage, warnings and errors are what that load left.
C1_ParseIdempotent ==
    (pc = "parse_log" /\ line_index > Len(raw_log) /\ prev.valid)
        => Result = prev.result

\* a second pass over the same two lines has ended, with warnings and errors
C1_Witness ==
    /\ pc = "parse_log" /\ line_index > Len(raw_log) /\ prev.valid
    /\ Len(raw_log) = 2 /\ warnings # <<>> /\ errors # <<>>

\* the render time the specification gives: the tail of the last line that
\* holds "render done in ", None when no line does
LastRenderTail(lines) ==
    LET at == {i \in 1..Len(lines) : Occurs(lines[i], s_render_done_in)}
    IN  IF at = {} THEN None
        ELSE RenderTail(lines[CHOOSE i \in at : \A j \in at : j <= i])

\* C2: after a load, render_time is the tail of the last line that matches
\* "render done in <TAIL>", whatever the tail, and None exactly when no line
\* matches.
C2_RenderTimeLastWins == LoadCompleted => render_time = LastRenderTail(raw_log)

\* C3: after a load, memory_usage has exactly one key per distinct time
\* label of the lines' leftmost markers, and the value of a key is the
\* <digits>MB label of the first line that carries the key.
C3_MemoryFirstWins ==
    LoadCompleted =>
        \A mk \in {[i \in 1..Len(raw_log) |-> MarkerOf(raw_log[i])]} :
            LET at == {i \in 1..Len(mk) : mk[i].has}
            IN  /\ {memory_usage[j][1] : j \in 1..Len(memory_usage)}
                       = {mk[i].label : i \in at}
                /\ Len(memory_usage) = Cardinality({mk[i].label : i \in at})
                /\ \A j \in 1..Len(memory_usage) :
                       \E i \in at :
                           /\ mk[i].label = memory_usage[j][1]
                           /\ \A h \in at : mk[h].label = mk[i].label => i <= h
                           /\ memory_usage[j][2] = mk[i].usage

\* a load of two lines with the same time label and different usage labels
\* has kept the first
C3_Witness ==
    /\ LoadCompleted /\ Len(raw_log) = 2
    /\ MarkerOf(raw_log[1]).has /\ MarkerOf(raw_log[2]).has
    /\ MarkerOf(raw_log[1]).label = MarkerOf(raw_log[2]).label
    /\ MarkerOf(raw_log[1]).usage # MarkerOf(raw_log[2]).usage
    /\ ~TimeStampAt(raw_log[2], 1)
    /\ Len(memory_usage) = 1

\* C4: after a load, warnings holds one entry per line that holds "WARNING"
\* and errors one per line that holds "ERROR", in the order of the lines,
\* each the text from the first marker to the end of the line; equal lines
\* give repeated entries.
C4_WarningsErrorsInOrder ==
    LoadCompleted =>
        /\ warnings = EntriesOf(raw_log, s_WARNING)
        /\ errors = EntriesOf(raw_log, s_ERROR)

\* a load of two equal lines that hold both markers has two equal entries
\* in each list
C4_Witness ==
    /\ LoadCompleted /\ Len(raw_log) = 2 /\ raw_log[1] = raw_log[2]
    /\ Len(warnings) = 2 /\ warnings[1] = warnings[2]
    /\ Len(errors) = 2 /\ errors[1] = errors[2]

\* C5: between events the parsed fields are those of parsing the lines of
\* the last load alone from the empty state; without a load (cancelled
\* dialog, wrong path, failed read) and after an empty file they are empty.
C5_FreshPerLoad ==
    pc = "idle" =>
        /\ LoadCompleted => Result = parse_log(EmptyResult, raw_log)
        /\ store_status # "ok" => raw_log = <<>> /\ Result = EmptyResult
        /\ raw_log = <<>> => Result = EmptyResult

\* a load has completed over a model that held data before it
C5_Witness ==
    /\ LoadCompleted /\ had_data /\ Len(raw_log) = 1 /\ memory_usage = <<>>
    /\ warnings # <<>>

\* no rule matches the line s
NoRuleMatches(s) ==
    /\ ~Occurs(s, s_render_done_in)
    /\ ~MarkerOf(s).has
    /\ ~Occurs(s, s_WARNING)
    /\ ~Occurs(s, s_ERROR)

\* the pass is at a line, or has ended without an exception
InPass == pc = "parse_log" \/ LoadCompleted

C6_Inv ==
    /\ store_status = "ok" => exception = "None"
    /\ InPass =>
        /\ line_index \in 1..(Len(raw_log) + 1)
        /\ visited = [k \in 1..(line_index - 1) |-> k]
    /\ LoadCompleted => Len(visited) = Len(raw_log)

C6_Step ==
    pc = "parse_log" =>
        IF line_index <= Len(raw_log)
        THEN /\ pc' = "parse_log"
             /\ line_index' = line_index + 1
             /\ visited' = Append(visited, line_index)
             /\ NoRuleMatches(raw_log[line_index]) => Result' = Result
        ELSE /\ pc' = "idle"
             /\ exception' = "None"
             /\ Result' = Result

\* C6: parse is total: each step of the pass visits the next line, once and
\* in order, until the last, after which the pass ends; no step ends with an
\* exception; a line that matches no rule leaves the parsed fields as they
\* are.
C6_ParseTotal == []C6_Inv /\ [][C6_Step]_vars

\* a load has completed whose second line matches no rule, after a first
\* line that left a memory sample
C6_Witness ==
    /\ LoadCompleted /\ Len(raw_log) = 2 /\ NoRuleMatches(raw_log[2])
    /\ visited = <<1, 2>> /\ memory_usage # <<>>

\* C7: a read that fails is reported as an exception of the load, and
\* parse_log is not entered in a load whose store_raw_log failed or was
\* skipped; the parsed fields stay empty.
C7_NoParseAfterFailedRead ==
    /\ store_status = "failed" => exception = "OSError" /\ pc = "idle"
    /\ store_status # "ok" =>
        /\ ~parse_invoked /\ pc # "parse_log" /\ visited = <<>>
        /\ Result = EmptyResult
    /\ exception = "OSError" => store_status = "failed"

\* the read of a file that cannot be opened has failed, in a window that
\* held data before
C7_Witness ==
    /\ store_status = "failed" /\ exception = "OSError" /\ had_data
    /\ file_path_edit = "locked.log"

\* s without its trailing newline
StripNewline(s) == SubSeq(s, 1, EndOfLine(s))

\* s.rstrip(): s without its trailing newline and spaces
StripWhitespace(s) ==
    LET keep == {i \in 1..Len(s) : s[i] \notin {NL, " "}}
    IN  IF keep = {} THEN <<>>
        ELSE SubSeq(s, 1, CHOOSE i \in keep : \A j \in keep : j <= i)

\* C8, as claimed: the parsed fields are those of the lines without their
\* trailing whitespace (newline and spaces).
C8_TrailingWhitespaceIrrelevant ==
    LoadCompleted =>
        Result = parse_log(EmptyResult,
                           [i \in 1..Len(raw_log) |-> StripWhitespace(raw_log[i])])

\* C8, amended: the parsed fields are those of the lines without their
\* trailing newline.
C8_TrailingNewlineIrrelevant ==
    LoadCompleted =>
        Result = parse_log(EmptyResult,
                           [i \in 1..Len(raw_log) |-> StripNewline(raw_log[i])])

\* a load of two lines that end in a newline has left a render time, a
\* warning and an error
C8_Witness ==
    /\ LoadCompleted /\ Len(raw_log) = 2
    /\ \A i \in 1..2 : raw_log[i][Len(raw_log[i])] = NL
    /\ Truthy(render_time) /\ warnings # <<>> /\ errors # <<>>

\* a is a prefix of b
IsPrefix(a, b) == Len(a) <= Len(b) /\ SubSeq(b, 1, Len(a)) = a

\* the distinct time labels of the lines' leftmost markers, in the order of
\* their first occurrence
FirstLabels(lines) ==
    LET mk == [i \in 1..Len(lines) |-> MarkerOf(lines[i])]
        firsts == {i \in 1..Len(lines) :
                      /\ mk[i].has
                      /\ \A h \in 1..(i - 1) : ~(mk[h].has /\ mk[h].label = mk[i].label)}
    IN  [k \in 1..Cardinality(firsts) |-> mk[Kth(firsts, k)].label]

C9_Inv ==
    InPass =>
        /\ \A i, j \in 1..Len(memory_usage) :
               memory_usage[i][1] = memory_usage[j][1] => i = j
        /\ dict_keys(memory_usage) = FirstLabels(SubSeq(raw_log, 1, line_index - 1))

C9_Step ==
    pc = "parse_log" =>
        /\ IsPrefix(warnings, warnings')
        /\ IsPrefix(errors, errors')
        /\ IsPrefix(memory_usage, memory_usage')

\* C9: within a pass the result only grows: each step leaves warnings,
\* errors and the items of memory_usage as a prefix of what they become, and
\* the keys of memory_usage are distinct, in the order of the first
\* occurrence of the labels in the lines read so far.
C9_ResultOnlyGrows == []C9_Inv /\ [][C9_Step]_vars

\* the pass is past two lines with different labels, the later label first
\* in the file, and a warning
C9_Witness ==
    /\ pc = "parse_log" /\ line_index = 3
    /\ Len(memory_usage) = 2 /\ StrLess(memory_usage[2][1], memory_usage[1][1])
    /\ warnings # <<>>

\* what one step of the pass does to each field, from that field's rule
\* alone
C10_Step ==
    (pc = "parse_log" /\ line_index <= Len(raw_log)) =>
        \A s \in {raw_log[line_index]} :
            /\ warnings' = IF Occurs(s, s_WARNING)
                           THEN Append(warnings, FromMarker(s, s_WARNING))
                           ELSE warnings
            /\ errors' = IF Occurs(s, s_ERROR)
                         THEN Append(errors, FromMarker(s, s_ERROR))
                         ELSE errors
            /\ \A mk \in {MarkerOf(s)} :
                   memory_usage' =
                       IF mk.has /\ \A j \in 1..Len(memory_usage) :
                                        memory_usage[j][1] # mk.label
                       THEN Append(memory_usage, <<mk.label, mk.usage>>)
                       ELSE memory_usage
            /\ ~Occurs(s, s_render_done_in) => render_time' = render_time
            /\ (Occurs(s, s_render_done_in) /\ RenderTail(s) # <<>>)
                   => render_time' = RenderTail(s)

\* C10: the four rules are applied to every line independently: each step
\* of the pass changes each field as that field's rule alone says, whatever
\* the other rules find in the line.
C10_RulesIndependent == [][C10_Step]_vars

\* the pass is past a first line that matched all four rules
C10_Witness ==
    /\ pc = "parse_log" /\ line_index = 2
    /\ Occurs(raw_log[1], s_WARNING) /\ Occurs(raw_log[1], s_ERROR)
    /\ Occurs(raw_log[1], s_render_done_in) /\ MarkerOf(raw_log[1]).has
    /\ Len(warnings) = 1 /\ Len(errors) = 1 /\ Len(memory_usage) = 1
    /\ Truthy(render_time)

\* the seconds an HH:MM:SS label stands for
Seconds(label) ==
    LET d(i) == Ord(label[i]) - 1
    IN  (d(1) * 10 + d(2)) * 3600 + (d(4) * 10 + d(5)) * 60 + d(7) * 10 + d(8)

\* the positions of the memory tabs in the tab widget
MemoryTabs == {i \in 1..Len(tab_widget) : tab_widget[i].name = "Memory Usage"}

\* C11: after a load there is no memory tab when memory_usage is empty;
\* otherwise there is one, with exactly one row (label, usage) per key of
\* memory_usage, the rows in ascending order of the label both as strings
\* and as times, whatever the order of the labels in the log.
C11_MemoryDisplaySorted ==
    LoadCompleted =>
        IF memory_usage = <<>> THEN MemoryTabs = {}
        ELSE /\ Cardinality(MemoryTabs) = 1
             /\ \A t \in MemoryTabs :
                    \A rows \in {tab_widget[t].rows} :
                        /\ Len(rows) = Len(memory_usage)
                        /\ {rows[k] : k \in 1..Len(rows)}
                               = {memory_usage[k] : k \in 1..Len(memory_usage)}
                        /\ \A k \in 1..(Len(rows) - 1) :
                               /\ StrLess(rows[k][1], rows[k + 1][1])
                               /\ Seconds(rows[k][1]) < Seconds(rows[k + 1][1])

\* a load whose log has the later label first shows two rows, the earlier
\* label first
C11_Witness ==
    /\ LoadCompleted /\ Len(memory_usage) = 2
    /\ Seconds(memory_usage[2][1]) < Seconds(memory_usage[1][1])
    /\ \E t \in MemoryTabs :
           /\ Len(tab_widget[t].rows) = 2
           /\ tab_widget[t].rows[1] = memory_usage[2]
           /\ tab_widget[t].rows[2] = memory_usage[1]

====
